---- MODULE Spec2Model ----
(***************************************************************************)
(* NSE Stock Scout (src/app5.py): the indicator functions sma / rsi / atr, *)
(* analyze, suggest_trades and the per-ticker batch loop of the script.    *)
(*                                                                         *)
(* Numbers.  A pandas cell is modelled as a record [k, n, d]:              *)
(*   k = "num"  : the exact rational n/d in lowest terms, d > 0            *)
(*   k = "nan"  : NaN (pd.isna is true)                                    *)
(*   k = "none" : Python None                                              *)
(* Floating point rounding error of the arithmetic is not modelled; the   *)
(* explicit round(x, 2) calls of the code are.                             *)
(***************************************************************************)
EXTENDS Integers, Sequences, FiniteSets, TLC

VARIABLES tickers, i, pc, df, suggestions, shown, err

vars == <<tickers, i, pc, df, suggestions, shown, err>>

\* ------------------------------------------------------------------ bounds
MaxTail == 2
MaxTickers == 2

\* ------------------------------------------------------- program constants
SMA_FAST == 20
SMA_SLOW == 50
RSI_WINDOW == 14
ATR_WINDOW == 14
LOOKBACK == 20

\* --------------------------------------------------------------- numbers
Abs(x) == IF x < 0 THEN -x ELSE x

RECURSIVE GCD(_, _)
GCD(a, b) == IF b = 0 THEN a ELSE GCD(b, a % b)

Rat(n, d) == LET g == GCD(Abs(n), d)
             IN [k |-> "num", n |-> n \div g, d |-> d \div g]

Int2Num(x) == [k |-> "num", n |-> x, d |-> 1]
NaN == [k |-> "nan", n |-> 0, d |-> 1]
None == [k |-> "none", n |-> 0, d |-> 1]

IsNum(x) == x.k = "num"
isna(x) == x.k = "nan"

Add(x, y) == IF IsNum(x) /\ IsNum(y) THEN Rat(x.n * y.d + y.n * x.d, x.d * y.d) ELSE NaN
Sub(x, y) == IF IsNum(x) /\ IsNum(y) THEN Rat(x.n * y.d - y.n * x.d, x.d * y.d) ELSE NaN
Scale(c, x) == IF IsNum(x) THEN Rat(c * x.n, x.d) ELSE NaN
DivInt(x, c) == IF IsNum(x) THEN Rat(x.n, x.d * c) ELSE NaN
\* x / y of two float cells; a zero divisor does not arise where the code divides
\* (rsi replaces 0 by NaN first, and 1 + rs >= 1), it is mapped to NaN.
Div(x, y) == IF IsNum(x) /\ IsNum(y) /\ y.n # 0
             THEN (IF y.n > 0 THEN Rat(x.n * y.d, x.d * y.n)
                              ELSE Rat(-(x.n * y.d), x.d * (-y.n)))
             ELSE NaN
AbsNum(x) == IF IsNum(x) THEN [x EXCEPT !.n = Abs(x.n)] ELSE x

\* Comparisons of float cells: any comparison with NaN is False.
Gt(x, y) == IsNum(x) /\ IsNum(y) /\ x.n * y.d > y.n * x.d
Lt(x, y) == Gt(y, x)
Ge(x, y) == IsNum(x) /\ IsNum(y) /\ x.n * y.d >= y.n * x.d
Le(x, y) == Ge(y, x)

\* Python's max(a, b): a unless b > a.
PyMax(a, b) == IF Gt(b, a) THEN b ELSE a

\* round(x, 2): to the nearest multiple of 1/100, ties to the even multiple.
\* The integer part is split off first so that the scaled remainder stays small.
Round2(x) ==
  IF ~IsNum(x) THEN x
  ELSE LET whole == x.n \div x.d
           rem   == x.n % x.d
           c     == (100 * rem) \div x.d
           r2    == 2 * ((100 * rem) % x.d)
           cents == IF r2 > x.d \/ (r2 = x.d /\ c % 2 = 1) THEN c + 1 ELSE c
       IN Rat(100 * whole + cents, 100)

\* ------------------------------------------------------ pandas primitives
\* Series.cumsum(), the running sums a rolling sum is the difference of.
RECURSIVE cumsum(_)
cumsum(s) ==
  IF Len(s) = 0 THEN <<>>
  ELSE LET n    == Len(s)
           head == cumsum(SubSeq(s, 1, n - 1))
       IN Append(head, IF n = 1 THEN s[n] ELSE Add(head[n - 1], s[n]))

\* Series.rolling(window).mean(): NaN until `window` observations exist, then
\* the mean of the trailing `window` values (all numeric in a price column).
rolling_mean(s, window) ==
  LET cs == cumsum(s)
  IN [j \in 1..Len(s) |->
        IF j < window THEN NaN
        ELSE DivInt(IF j = window THEN cs[j] ELSE Sub(cs[j], cs[j - window]), window)]

RECURSIVE MaxRange(_, _, _)
MaxRange(s, lo, hi) ==
  IF lo = hi THEN s[hi]
  ELSE LET m == MaxRange(s, lo, hi - 1)
       IN IF ~IsNum(m) \/ ~IsNum(s[hi]) THEN NaN ELSE IF Gt(s[hi], m) THEN s[hi] ELSE m

RECURSIVE MinRange(_, _, _)
MinRange(s, lo, hi) ==
  IF lo = hi THEN s[hi]
  ELSE LET m == MinRange(s, lo, hi - 1)
       IN IF ~IsNum(m) \/ ~IsNum(s[hi]) THEN NaN ELSE IF Lt(s[hi], m) THEN s[hi] ELSE m

rolling_max(s, window) ==
  [j \in 1..Len(s) |-> IF j < window THEN NaN ELSE MaxRange(s, j - window + 1, j)]

rolling_min(s, window) ==
  [j \in 1..Len(s) |-> IF j < window THEN NaN ELSE MinRange(s, j - window + 1, j)]

diff(s) == [j \in 1..Len(s) |-> IF j = 1 THEN NaN ELSE Sub(s[j], s[j - 1])]
shift(s) == [j \in 1..Len(s) |-> IF j = 1 THEN NaN ELSE s[j - 1]]

clip_lower0(x) == IF IsNum(x) /\ x.n < 0 THEN Int2Num(0) ELSE x
clip_upper0(x) == IF IsNum(x) /\ x.n > 0 THEN Int2Num(0) ELSE x
replace0(x) == IF IsNum(x) /\ x.n = 0 THEN NaN ELSE x
fillna(x, v) == IF isna(x) THEN Int2Num(v) ELSE x

\* DataFrame.max(axis=1) of three columns: NaN cells are skipped.
RowMax2(a, b) == IF ~IsNum(a) THEN b ELSE IF ~IsNum(b) THEN a ELSE IF Gt(b, a) THEN b ELSE a
RowMax3(a, b, c) == RowMax2(RowMax2(a, b), c)

\* Series.ewm(alpha=1/window, adjust=False).mean(): NaN up to the first
\* observation, seeded by it, then y = ((window-1)*y_prev + x)/window; a NaN
\* observation after the seed repeats the previous value.
RECURSIVE ewm_mean(_, _)
ewm_mean(s, window) ==
  IF Len(s) = 0 THEN <<>>
  ELSE LET n    == Len(s)
           head == ewm_mean(SubSeq(s, 1, n - 1), window)
           prev == IF n = 1 THEN NaN ELSE head[n - 1]
           x    == s[n]
           y    == IF ~IsNum(x) THEN prev
                   ELSE IF ~IsNum(prev) THEN x
                   ELSE DivInt(Add(Scale(window - 1, prev), x), window)
       IN Append(head, y)

\* ------------------------------------------------------------ indicators
Column(rows, name) == [j \in 1..Len(rows) |-> rows[j][name]]

\* Variant of sma: rolling(window, min_periods=1), defined from the first bar.
sma_min_periods_1(series, window) ==
  LET cs == cumsum(series)
  IN [j \in 1..Len(series) |->
        IF j <= window THEN DivInt(cs[j], j) ELSE DivInt(Sub(cs[j], cs[j - window]), window)]

sma(series, window) == rolling_mean(series, window)

rsi_gain(series) == LET delta == diff(series) IN [j \in 1..Len(series) |-> clip_lower0(delta[j])]
rsi_loss(series) == LET delta == diff(series) IN [j \in 1..Len(series) |-> Scale(-1, clip_upper0(delta[j]))]
avg_gain(series, window) == ewm_mean(rsi_gain(series), window)
avg_loss(series, window) == ewm_mean(rsi_loss(series), window)

rsi_raw(series, window) ==
  LET ag == avg_gain(series, window)
      al == avg_loss(series, window)
  IN [j \in 1..Len(series) |->
        LET rs == Div(ag[j], replace0(al[j]))
        IN Sub(Int2Num(100), Div(Int2Num(100), Add(Int2Num(1), rs)))]

\* Variant of rsi: the final fillna(50) left out.
rsi_without_fillna(series, window) == rsi_raw(series, window)

rsi(series, window) ==
  LET r == rsi_raw(series, window) IN [j \in 1..Len(series) |-> fillna(r[j], 50)]

true_range(rows) ==
  LET high == Column(rows, "High")
      low  == Column(rows, "Low")
      pcl  == shift(Column(rows, "Close"))
  IN [j \in 1..Len(rows) |->
        RowMax3(Sub(high[j], low[j]), AbsNum(Sub(high[j], pcl[j])), AbsNum(Sub(low[j], pcl[j])))]

atr(rows, window) == ewm_mean(true_range(rows), window)

\* ------------------------------------------------------------------ analyze
AllCols == {"Open", "High", "Low", "Close", "Volume"}

\* df['Close'], df['High'], df['Low'] raise KeyError when the column is absent.
AnalyzeKeyError(d) == ~({"Close", "High", "Low"} \subseteq d.cols)

analyze(d) ==
  LET close == Column(d.rows, "Close")
      sma20 == sma(close, SMA_FAST)
      sma50 == sma(close, SMA_SLOW)
      rsi14 == rsi(close, RSI_WINDOW)
      atr14 == atr(d.rows, ATR_WINDOW)
  IN [cols |-> d.cols \cup {"SMA20", "SMA50", "RSI14", "ATR14"},
      ts   |-> d.ts,
      rows |-> [j \in 1..Len(d.rows) |->
                  [High  |-> d.rows[j].High,
                   Low   |-> d.rows[j].Low,
                   Close |-> d.rows[j].Close,
                   SMA20 |-> sma20[j],
                   SMA50 |-> sma50[j],
                   RSI14 |-> rsi14[j],
                   ATR14 |-> atr14[j]]]]

\* ----------------------------------------------------------- suggest_trades
Last(d) == d.rows[Len(d.rows)]

trend_up(d) ==
  LET sma20 == Last(d).SMA20
      sma50 == Last(d).SMA50
  IN IF ~isna(sma20) /\ ~isna(sma50) THEN Gt(sma20, sma50) ELSE FALSE

\* Variant of recent_high: the window ends at the bar before the latest one.
recent_high_excluding_latest(d) ==
  LET high == Column(d.rows, "High")
      n    == Len(d.rows)
  IN IF n = 1 THEN NaN ELSE rolling_max(SubSeq(high, 1, n - 1), LOOKBACK)[n - 1]

recent_high(d) == rolling_max(Column(d.rows, "High"), LOOKBACK)[Len(d.rows)]
recent_low(d) == rolling_min(Column(d.rows, "Low"), LOOKBACK)[Len(d.rows)]

breakout_stop_loss(d) ==
  PyMax(Sub(Last(d).Close, Scale(2, Last(d).ATR14)), recent_low(d))

\* Variants of is_breakout: `close >= recent_high`, and `not close <= recent_high`
\* (true when recent_high is NaN).
is_breakout_ge(d) == Ge(Last(d).Close, recent_high(d))
is_breakout_not_le(d) == ~Le(Last(d).Close, recent_high(d))

is_breakout(d) == Gt(Last(d).Close, recent_high(d))

\* Variant of aggressive: the 'No breakout' marker carries the close as entry.
aggressive_marker_with_entry(d) ==
  LET close == Last(d).Close
      atr14 == Last(d).ATR14
  IN IF is_breakout(d)
     THEN [action    |-> "Consider BUY (breakout)",
           entry     |-> close,
           stop_loss |-> breakout_stop_loss(d),
           targets   |-> <<Add(close, Scale(1, atr14)), Add(close, Scale(2, atr14))>>]
     ELSE [action |-> "No breakout", entry |-> close]

aggressive(d) ==
  LET close == Last(d).Close
      atr14 == Last(d).ATR14
  IN IF is_breakout(d)
     THEN [action    |-> "Consider BUY (breakout)",
           entry     |-> close,
           stop_loss |-> breakout_stop_loss(d),
           targets   |-> <<Add(close, Scale(1, atr14)), Add(close, Scale(2, atr14))>>]
     ELSE [action |-> "No breakout", entry |-> None]

\* Variant of pullback_plan: the round(.., 2) calls left out.
pullback_plan_unrounded(d) ==
  LET sma50 == Last(d).SMA50
      atr14 == Last(d).ATR14
  IN [action    |-> "Consider BUY (pullback to trend)",
      entry     |-> sma50,
      stop_loss |-> Sub(sma50, Scale(2, atr14)),
      targets   |-> <<Add(sma50, Scale(1, atr14)), Add(sma50, Scale(2, atr14))>>]

pullback_plan(d) ==
  LET sma50 == Last(d).SMA50
      atr14 == Last(d).ATR14
  IN [action    |-> "Consider BUY (pullback to trend)",
      entry     |-> Round2(sma50),
      stop_loss |-> Round2(Sub(sma50, Scale(2, atr14))),
      targets   |-> <<Round2(Add(sma50, Scale(1, atr14))), Round2(Add(sma50, Scale(2, atr14)))>>]

conservative(d) ==
  LET close == Last(d).Close
      sma50 == Last(d).SMA50
  IN IF trend_up(d) /\ Lt(close, sma50)
     THEN pullback_plan(d)
     ELSE IF trend_up(d) /\ Ge(close, sma50)
     THEN [action |-> "Trend up and above SMA50 - wait for a pullback or buy small",
           entry  |-> None]
     ELSE [action |-> "No conservative setup", entry |-> None]

momentum(d) ==
  [RSI14 |-> Round2(Last(d).RSI14),
   note  |-> "Overbought (RSI>70) or Oversold (RSI<30) checks"]

suggest_trades(d) ==
  [Aggressive   |-> aggressive(d),
   Conservative |-> conservative(d),
   Momentum     |-> momentum(d)]

\* ------------------------------------------------- what yf.download returns
Highs == {10, 13}
Lows == {8}
Closes == {8, 10, 13}
Bars == [High : Highs, Low : Lows, Close : Closes]
BaseBar == [High |-> 10, Low |-> 8, Close |-> 10]
PrefixLens == {0, 3, 18, 48}
Tails == UNION {[1..k -> Bars] : k \in 0..MaxTail}

RawRow(b) == [High |-> Int2Num(b.High), Low |-> Int2Num(b.Low), Close |-> Int2Num(b.Close)]

SeriesOf(p, tail) == [j \in 1..(p + Len(tail)) |->
                        IF j <= p THEN RawRow(BaseBar) ELSE RawRow(tail[j - p])]

ColSets == {AllCols, AllCols \ {"Open"}, AllCols \ {"Close"}}

\* The index as delivered: strictly increasing, or with the last stamp repeated.
Stamps(n) == {[j \in 1..n |-> j], [j \in 1..n |-> IF j = n /\ n > 1 THEN n - 1 ELSE j]}

\* A download has at most one defect: a missing column or a repeated stamp.
Shapes(n) == {q \in ColSets \X Stamps(n) : q[1] = AllCols \/ q[2] = [j \in 1..n |-> j]}

EmptyDf == [cols |-> AllCols, ts |-> <<>>, rows |-> <<>>]

Download(c, t, p, tail) == [cols |-> c, ts |-> t, rows |-> SeriesOf(p, tail)]

NoSuggestions == [Aggressive |-> None, Conservative |-> None, Momentum |-> None]

\* ------------------------------------------------------------ batch loop
Init ==
  /\ tickers = MaxTickers
  /\ i = 1
  /\ pc = "loop"
  /\ df = EmptyDf
  /\ suggestions = NoSuggestions
  /\ shown = <<>>
  /\ err = "none"

\* for t in tickers: exhausted.
LoopDone ==
  /\ pc = "loop" /\ i > tickers
  /\ pc' = "done"
  /\ UNCHANGED <<tickers, i, df, suggestions, shown, err>>

\* st.header; fetch_historical raises (yf.download): nothing catches it.
FetchRaises ==
  /\ pc = "loop" /\ i <= tickers
  /\ shown' = Append(shown, i)
  /\ err' = "FetchError"
  /\ pc' = "aborted"
  /\ UNCHANGED <<tickers, i, df, suggestions>>

\* st.header; fetch_historical returns an empty frame: st.error, st.warning, continue.
FetchEmpty ==
  /\ pc = "loop" /\ i <= tickers
  /\ shown' = Append(shown, i)
  /\ df' = EmptyDf
  /\ i' = i + 1
  /\ UNCHANGED <<tickers, pc, suggestions, err>>

\* st.header; fetch_historical returns data.
FetchData ==
  /\ pc = "loop" /\ i <= tickers
  /\ \E p \in PrefixLens, tail \in Tails :
       /\ p + Len(tail) >= 1
       /\ \E q \in Shapes(p + Len(tail)) : df' = Download(q[1], q[2], p, tail)
  /\ shown' = Append(shown, i)
  /\ pc' = "analyze"
  /\ UNCHANGED <<tickers, i, suggestions, err>>

\* df = analyze(df)
Analyze ==
  /\ pc = "analyze" /\ ~AnalyzeKeyError(df)
  /\ df' = analyze(df)
  /\ pc' = "display"
  /\ UNCHANGED <<tickers, i, suggestions, shown, err>>

AnalyzeRaises ==
  /\ pc = "analyze" /\ AnalyzeKeyError(df)
  /\ err' = "KeyError"
  /\ pc' = "aborted"
  /\ UNCHANGED <<tickers, i, df, suggestions, shown>>

\* Latest indicators, live quote, chart: read df, change nothing.
Display ==
  /\ pc = "display"
  /\ pc' = "suggest"
  /\ UNCHANGED <<tickers, i, df, suggestions, shown, err>>

\* suggestions = suggest_trades(df); st.json(suggestions)
SuggestTrades ==
  /\ pc = "suggest"
  /\ suggestions' = suggest_trades(df)
  /\ pc' = "preview"
  /\ UNCHANGED <<tickers, i, df, shown, err>>

\* st.dataframe(...tail(50)); end of the loop body.  df and suggestions are
\* not read again before the next iteration assigns them: they are cleared.
Preview ==
  /\ pc = "preview"
  /\ i' = i + 1
  /\ pc' = "loop"
  /\ df' = EmptyDf
  /\ suggestions' = NoSuggestions
  /\ UNCHANGED <<tickers, shown, err>>

Next ==
  \/ LoopDone
  \/ FetchRaises
  \/ FetchEmpty
  \/ FetchData
  \/ Analyze
  \/ AnalyzeRaises
  \/ Display
  \/ SuggestTrades
  \/ Preview

Spec == Init /\ [][Next]_vars

\* =================================================================== claims
\* Helpers of the formulas below (bar index b of the source is row b + 1 here).
N == Len(df.rows)
LastRow == df.rows[N]
Enriched == pc \in {"display", "suggest", "preview"}
Suggested == pc = "preview"

NoBreakoutMarker == [action |-> "No breakout", entry |-> None]
NoSetupMarker == [action |-> "No conservative setup", entry |-> None]
WaitMarker == [action |-> "Trend up and above SMA50 - wait for a pullback or buy small",
               entry  |-> None]

PlanKeys == {"action", "entry", "stop_loss", "targets"}
MarkerKeys == {"action", "entry"}

\* close is strictly above the High of each of the last 20 rows (the latest included).
AboveLast20Highs == /\ N >= 20
                    /\ \A j \in (N - 19)..N : Gt(LastRow.Close, df.rows[j].High)

NumMin(a, b) == IF Lt(b, a) THEN b ELSE a

\* y is x rounded to 2 decimals: a whole number of hundredths within 1/200 of x.
IsRounded2(y, x) ==
  /\ IsNum(y) /\ IsNum(x)
  /\ 100 % y.d = 0
  /\ LET c == y.n * (100 \div y.d)
     IN /\ (2 * c - 1) * x.d <= 200 * x.n
        /\ 200 * x.n <= (2 * c + 1) * x.d

TrendUpAtLast == /\ IsNum(LastRow.SMA20) /\ IsNum(LastRow.SMA50)
                 /\ Gt(LastRow.SMA20, LastRow.SMA50)

WellFormedLast == /\ Le(LastRow.Low, LastRow.Close) /\ Le(LastRow.Close, LastRow.High)

\* Rows at which the close fell below the previous close.
LossRows == {k \in 2..N : Lt(df.rows[k].Close, df.rows[k - 1].Close)}
NoLossUpTo(j) == \A k \in LossRows : k > j

\* MalformedSeries of the spec: a required OHLC column is missing, or the
\* timestamps are not strictly increasing.
Malformed(d) ==
  \/ ~({"Open", "High", "Low", "Close"} \subseteq d.cols)
  \/ \E j \in 2..Len(d.ts) : d.ts[j] <= d.ts[j - 1]

\* C1 (as claimed): in the breakout branch stop_loss is the LOWER (wider) of
\* close - 2*ATR and the rolling 20-bar min of Low; entry = close and
\* targets = [close + ATR, close + 2*ATR].
C1_BreakoutStopIsWider ==
  (Suggested /\ AboveLast20Highs) =>
     LET a == suggestions.Aggressive
         close == LastRow.Close
         atr14 == LastRow.ATR14
     IN /\ DOMAIN a = PlanKeys
        /\ a.entry = close
        /\ a.targets = <<Add(close, atr14), Add(close, Scale(2, atr14))>>
        /\ a.stop_loss = NumMin(Sub(close, Scale(2, atr14)), recent_low(df))

C3_BreakoutIffStrictlyAbove ==
  Suggested =>
     /\ (AboveLast20Highs <=> IsNum(suggestions.Aggressive.entry))
     /\ (~AboveLast20Highs => suggestions.Aggressive = NoBreakoutMarker)

C3_Witness ==
  /\ Suggested /\ N >= 20
  /\ LastRow.Close = LastRow.High
  /\ \A j \in (N - 19)..N : Ge(LastRow.Close, df.rows[j].High)
  /\ suggestions.Aggressive = NoBreakoutMarker

\* C4 (as claimed): with trend_up and close < sma_slow the pullback plan is exactly
\* entry = sma_slow, stop_loss = sma_slow - 2*ATR, targets = [sma_slow + ATR,
\* sma_slow + 2*ATR]; otherwise the matching marker with no entry.
C4_PullbackPlanExact ==
  Suggested =>
     LET c == suggestions.Conservative
         sma50 == LastRow.SMA50
         atr14 == LastRow.ATR14
     IN /\ (TrendUpAtLast /\ Lt(LastRow.Close, sma50)) =>
              /\ DOMAIN c = PlanKeys
              /\ c.entry = sma50
              /\ c.stop_loss = Sub(sma50, Scale(2, atr14))
              /\ c.targets = <<Add(sma50, atr14), Add(sma50, Scale(2, atr14))>>
        /\ (TrendUpAtLast /\ Ge(LastRow.Close, sma50)) => c = WaitMarker
        /\ ~TrendUpAtLast => c = NoSetupMarker

\* C4 (amended): with trend_up and close < sma_slow the pullback plan holds
\* sma_slow, sma_slow - 2*ATR, sma_slow + ATR and sma_slow + 2*ATR each rounded to
\* 2 decimals; otherwise the matching marker with no entry.
C4_PullbackPlanRounded ==
  Suggested =>
     LET c == suggestions.Conservative
         sma50 == LastRow.SMA50
         atr14 == LastRow.ATR14
     IN /\ (TrendUpAtLast /\ Lt(LastRow.Close, sma50)) =>
              /\ DOMAIN c = PlanKeys
              /\ c.action = "Consider BUY (pullback to trend)"
              /\ IsRounded2(c.entry, sma50)
              /\ IsRounded2(c.stop_loss, Sub(sma50, Scale(2, atr14)))
              /\ Len(c.targets) = 2
              /\ IsRounded2(c.targets[1], Add(sma50, atr14))
              /\ IsRounded2(c.targets[2], Add(sma50, Scale(2, atr14)))
        /\ (TrendUpAtLast /\ Ge(LastRow.Close, sma50)) => c = WaitMarker
        /\ ~TrendUpAtLast => c = NoSetupMarker

C4_Witness ==
  /\ Suggested /\ TrendUpAtLast /\ Lt(LastRow.Close, LastRow.SMA50)
  /\ suggestions.Conservative.stop_loss # Sub(LastRow.SMA50, Scale(2, LastRow.ATR14))

\* C5: RSI14 is a number in [0, 100] at every bar, and exactly 50 at every bar
\* up to which no close has fallen (average loss zero or not yet seeded).
C5_RsiNeutralAndBounded ==
  Enriched =>
     \A j \in 1..N :
        LET r == df.rows[j].RSI14
        IN /\ IsNum(r)
           /\ Ge(r, Int2Num(0)) /\ Le(r, Int2Num(100))
           /\ (NoLossUpTo(j) => r = Int2Num(50))

C5_Witness ==
  /\ pc = "display"
  /\ \E j \in 2..N : /\ Gt(df.rows[j].Close, df.rows[j - 1].Close)
                     /\ NoLossUpTo(j)
                     /\ df.rows[j].RSI14 = Int2Num(50)
  /\ \E j \in 2..N : ~NoLossUpTo(j) /\ df.rows[j].RSI14 # Int2Num(50)

\* C6 (as claimed): no failure for one symbol aborts the batch; when the script
\* stops, every symbol of the list has been processed, in order.
C6_BatchNeverAborts ==
  /\ pc # "aborted"
  /\ (pc = "done" => shown = [k \in 1..tickers |-> k])

\* C7 (as claimed): analyze fails fast with MalformedSeries on a malformed
\* series and produces no derived values for it.
C7_MalformedFailsFast ==
  (Malformed(df) /\ pc # "analyze") => (err = "MalformedSeries" /\ ~Enriched)

\* C8 (as claimed): when sma_fast, sma_slow or the rolling 20-bar high is
\* undefined at the latest bar, both the breakout and the pullback rule return
\* their 'no signal' marker.
C8_BothRulesDegrade ==
  (Suggested /\ (isna(LastRow.SMA20) \/ isna(LastRow.SMA50) \/ N < LOOKBACK)) =>
     /\ err = "none"
     /\ suggestions.Conservative = NoSetupMarker
     /\ suggestions.Aggressive = NoBreakoutMarker

\* C8 (amended): when sma_fast, sma_slow or the rolling 20-bar high is undefined
\* at the latest bar, no exception is raised and the pullback rule returns its
\* 'No conservative setup' marker; the breakout rule returns its 'No breakout'
\* marker when sma_fast or the rolling high is undefined (fewer than 20 bars).
C8_RulesDegradePerField ==
  (Suggested /\ (isna(LastRow.SMA20) \/ isna(LastRow.SMA50) \/ N < LOOKBACK)) =>
     /\ err = "none"
     /\ suggestions.Conservative = NoSetupMarker
     /\ ((isna(LastRow.SMA20) \/ N < LOOKBACK) => suggestions.Aggressive = NoBreakoutMarker)

C8_Witness ==
  /\ Suggested /\ N = 5 /\ isna(LastRow.SMA20)
  /\ Gt(LastRow.Close, LastRow.High)
  /\ suggestions.Aggressive = NoBreakoutMarker

\* C9: every result holds the three entries; Aggressive and Conservative are
\* each a full plan (numeric entry, stop_loss, two numeric targets) or a marker
\* whose entry is None.
IsPlanOrMarker(s) ==
  \/ /\ DOMAIN s = PlanKeys
     /\ IsNum(s.entry) /\ IsNum(s.stop_loss)
     /\ Len(s.targets) = 2 /\ IsNum(s.targets[1]) /\ IsNum(s.targets[2])
  \/ /\ DOMAIN s = MarkerKeys
     /\ s.entry = None

C9_ThreeEntriesPlanOrMarker ==
  Suggested =>
     /\ DOMAIN suggestions = {"Aggressive", "Conservative", "Momentum"}
     /\ IsPlanOrMarker(suggestions.Aggressive)
     /\ IsPlanOrMarker(suggestions.Conservative)
     /\ DOMAIN suggestions.Momentum = {"RSI14", "note"}

C9_Witness ==
  /\ Suggested
  /\ DOMAIN suggestions.Aggressive = PlanKeys
  /\ DOMAIN suggestions.Conservative = MarkerKeys

\* C10: when the latest bar has Low <= Close <= High the breakout branch is not
\* taken: Aggressive is the 'No breakout' marker.
C10_NoBreakoutOnWellFormedBar ==
  (Suggested /\ WellFormedLast) => suggestions.Aggressive = NoBreakoutMarker

C10_Witness ==
  /\ Suggested /\ WellFormedLast /\ N > LOOKBACK
  /\ \A j \in (N - LOOKBACK)..(N - 1) : Gt(LastRow.Close, df.rows[j].High)
  /\ suggestions.Aggressive = NoBreakoutMarker

====
